---- MODULE Spec2Model ----
(***************************************************************************)
(* Model of cashews.wrapper.wrapper.Wrapper: the registration table        *)
(* (_backends), the memoised longest-prefix resolver                       *)
(* (_get_backend_and_config under functools.lru_cache), the middleware     *)
(* composer (_with_middlewares_for_backend) and the lifecycle fan-out      *)
(* (init / is_init / close).                                               *)
(*                                                                         *)
(* Strings are sequences of character codes: <<>> is "", <<1>> is "a",     *)
(* <<1, 2>> is "ab", <<2>> is "b", <<1, 2, 3>> is "abc",                   *)
(* <<1, 24, 24>> is "axx", <<26, 26, 26>> is "zzz".                        *)
(***************************************************************************)
EXTENDS Integers, Sequences, FiniteSets, TLC

\* Number of backends the setup calls of one run may construct.
MaxBackends == 3

\* Number of backends the setup calls of a pipeline run may construct.
MaxPipelineBackends == 2

\* maxsize of the lru_cache around _get_backend_and_config (1000 in the
\* source), scaled down so that eviction happens within the run.
MaxSize == 2

\* Wrapper instances; the lru_cache is one per class, shared by all of them.
Wrappers == {1, 2}

\* The instance the single-instance specifications drive.
MainWrapper == {1}

\* Prefixes passed to setup: "", "a", "ab", "b".
Prefixes == {<<>>, <<1>>, <<1, 2>>, <<2>>}

\* Keys passed to resolution: "abc", "axx", "zzz", "b".
Keys == {<<1, 2, 3>>, <<1, 24, 24>>, <<26, 26, 26>>, <<2>>}

\* Backend objects, named by the order of their construction.
Backends == 1..MaxBackends

\* Number of threads that call the resolver.
MaxThreads == 2

Threads == 1..MaxThreads

VARIABLES
    _backends,   \* per wrapper: self._backends, in dict insertion order
    cache,       \* the lru_cache: entries from least to most recently used
    constructed, \* number of backend objects constructed so far
    disabled,    \* per backend: disable() called and enable() not called since
    is_init,     \* per backend: Backend.is_init
    result,      \* outcome of the last call, as its caller sees it
    resolved,    \* per wrapper and key: the last registration returned since the last setup
    stale,       \* per wrapper: a setup call happened after a resolution
    given,       \* per backend: the arguments of the setup call that constructed it
    log,         \* the events of the last invocation of a composed callable
    task,        \* the init() or close() coroutine in progress
    order,       \* the backends the last init() or close() has called, in order
    recent,      \* history: the (wrapper, key) pairs resolved, from least to most recently
    raised,      \* history: per wrapper, the keys whose last resolution raised
    own,         \* history: per wrapper, the cache it would have if no other wrapper used it
    threads      \* per thread: where its call of _get_backend_and_config stands

vars == <<_backends, cache, constructed, disabled, is_init, result, resolved,
          stale, given, log, task, order, recent, raised, own, threads>>

\* Marks the absence of a registration / of a call.
None == [kind |-> "None"]

\* The exception raised at wrapper.py:34.
NotConfiguredError == [kind |-> "NotConfiguredError"]

default_prefix == <<>>

\* No init() or close() is in progress.
Idle == [kind |-> "idle"]

(***************************************************************************)
(* str operations used by the resolver                                     *)
(***************************************************************************)

\* key.startswith(prefix)
startswith(key, prefix) ==
    /\ Len(prefix) <= Len(key)
    /\ SubSeq(key, 1, Len(prefix)) = prefix

\* s < t for Python str: code-point lexicographic, a proper prefix is smaller.
StrLess(s, t) ==
    \E i \in 1..Len(t) :
        /\ \A j \in 1..(i - 1) : j <= Len(s) /\ s[j] = t[j]
        /\ \/ i > Len(s)
           \/ i <= Len(s) /\ s[i] < t[i]

\* Insert string s into the descending sequence sorted_.
RECURSIVE InsertDesc(_, _)
InsertDesc(s, sorted_) ==
    IF sorted_ = <<>> THEN <<s>>
    ELSE IF StrLess(Head(sorted_), s) THEN <<s>> \o sorted_
    ELSE <<Head(sorted_)>> \o InsertDesc(s, Tail(sorted_))

\* A mis-ordered scan: the keys in reverse insertion order, not sorted.
RECURSIVE SortedReverseUnsorted(_)
SortedReverseUnsorted(keys) ==
    IF keys = <<>> THEN <<>>
    ELSE SortedReverseUnsorted(Tail(keys)) \o <<Head(keys)>>

\* A mis-ordered scan: ascending instead of descending.
RECURSIVE SortedAscending(_)
SortedAscending(keys) ==
    IF keys = <<>> THEN <<>>
    ELSE LET rest == SortedAscending(Tail(keys))
             smaller == SelectSeq(rest, LAMBDA x : StrLess(x, Head(keys)))
             larger == SelectSeq(rest, LAMBDA x : ~StrLess(x, Head(keys)))
         IN smaller \o <<Head(keys)>> \o larger

\* sorted(keys, reverse=True)
RECURSIVE SortedReverse(_)
SortedReverse(keys) ==
    IF keys = <<>> THEN <<>>
    ELSE InsertDesc(Head(keys), SortedReverse(Tail(keys)))

(***************************************************************************)
(* The registration table: a dict, kept as a sequence in insertion order   *)
(***************************************************************************)

\* list(d.keys())
DictKeys(d) == [i \in 1..Len(d) |-> d[i].prefix]

\* prefix in d
DictHas(d, prefix) == \E i \in 1..Len(d) : d[i].prefix = prefix

\* d[prefix], for a prefix that is in d
DictGet(d, prefix) ==
    LET i == CHOOSE j \in 1..Len(d) : d[j].prefix = prefix
    IN [backend |-> d[i].backend, middlewares |-> d[i].middlewares]

\* An assignment that adds an item also when the key is already there.
DictSetAppends(d, prefix, value) ==
    Append(d, [prefix |-> prefix, backend |-> value.backend,
               middlewares |-> value.middlewares])

\* d[prefix] = value: an existing key keeps its position, a new one is appended
DictSet(d, prefix, value) ==
    LET item == [prefix |-> prefix, backend |-> value.backend,
                 middlewares |-> value.middlewares]
    IN IF DictHas(d, prefix)
       THEN [i \in 1..Len(d) |-> IF d[i].prefix = prefix THEN item ELSE d[i]]
       ELSE Append(d, item)

\* d.values()
DictValues(d) ==
    [i \in 1..Len(d) |-> [backend |-> d[i].backend, middlewares |-> d[i].middlewares]]

(***************************************************************************)
(* Wrapper.__init__                                                        *)
(***************************************************************************)

_default_middlewares == <<"_is_disable_middleware", "auto_init", "_invalidate_middleware">>

\* Middleware tuples a caller passes to _with_middlewares_for_backend.
Extras == {<<>>, <<"m0">>, <<"m0", "m1">>, <<"m1", "m0">>, <<"m1", "m2", "m0">>}

\* Middleware tuples a caller passes to setup.
SetupExtras == {<<>>, <<"m1", "m0">>}

Init ==
    /\ _backends = [w \in Wrappers |-> <<>>]
    /\ cache = <<>>
    /\ constructed = 0
    /\ disabled = [b \in Backends |-> FALSE]
    /\ is_init = [b \in Backends |-> FALSE]
    /\ result = None
    /\ resolved = [w \in Wrappers |-> [k \in Keys |-> None]]
    /\ stale = [w \in Wrappers |-> FALSE]
    /\ given = [b \in Backends |-> None]
    /\ log = <<>>
    /\ task = Idle
    /\ order = <<>>
    /\ recent = <<>>
    /\ raised = [w \in Wrappers |-> {}]
    /\ own = [w \in Wrappers |-> <<>>]
    /\ threads = [t \in Threads |-> Idle]

(***************************************************************************)
(* Wrapper._get_backend_and_config                                         *)
(***************************************************************************)

\* The first prefix of the sequence that key starts with, None when there is none.
RECURSIVE FirstMatch(_, _)
FirstMatch(prefixes, key) ==
    IF prefixes = <<>> THEN None
    ELSE IF startswith(key, Head(prefixes)) THEN [prefix |-> Head(prefixes)]
    ELSE FirstMatch(Tail(prefixes), key)

\* The prefix (as [prefix |-> p]) whose registration the body of
\* _get_backend_and_config returns for table d, or NotConfiguredError.
ScanPrefix(d, key) ==
    LET m == FirstMatch(SortedReverse(DictKeys(d)), key)
    IN IF m # None THEN m
       ELSE IF ~DictHas(d, default_prefix) THEN NotConfiguredError
       ELSE [prefix |-> default_prefix]

\* A scan that returns nothing where the source raises.
ScanSilent(d, key) ==
    LET p == ScanPrefix(d, key)
    IN IF p = NotConfiguredError THEN None ELSE DictGet(d, p.prefix)

\* The body of _get_backend_and_config (a cache miss).
Scan(d, key) ==
    LET p == ScanPrefix(d, key)
    IN IF p = NotConfiguredError THEN NotConfiguredError ELSE DictGet(d, p.prefix)

\* Position of (w, key) in the lru_cache, 0 when absent.
CacheIndex(c, w, key) ==
    IF \E i \in 1..Len(c) : c[i].w = w /\ c[i].key = key
    THEN CHOOSE i \in 1..Len(c) : c[i].w = w /\ c[i].key = key
    ELSE 0

\* Remove the entry at position i.
Without(c, i) == SubSeq(c, 1, i - 1) \o SubSeq(c, i + 1, Len(c))

\* A cache that never evicts.
CacheInsertUnbounded(c, entry) == Append(c, entry)

\* lru_cache on a miss: the new entry is the most recent; a full cache drops
\* its least recently used entry.
CacheInsert(c, entry) ==
    IF Len(c) >= MaxSize THEN Append(Tail(c), entry) ELSE Append(c, entry)

\* The value the memoised _get_backend_and_config(w, key) returns or raises.
Lookup(w, key) ==
    LET i == CacheIndex(cache, w, key)
    IN IF i # 0 THEN cache[i].value ELSE Scan(_backends[w], key)

\* An lru_cache whose hits leave the order of its entries as it is.
CacheAfterNoRefresh(w, key) ==
    LET i == CacheIndex(cache, w, key)
        v == Scan(_backends[w], key)
    IN IF i # 0 THEN cache
       ELSE IF v = NotConfiguredError THEN cache
       ELSE CacheInsert(cache, [w |-> w, key |-> key, value |-> v])

\* An lru_cache that keeps the exception of a miss as the key's entry.
CacheAfterMemoizesFailure(w, key) ==
    LET i == CacheIndex(cache, w, key)
        v == Scan(_backends[w], key)
    IN IF i # 0 THEN Append(Without(cache, i), cache[i])
       ELSE CacheInsert(cache, [w |-> w, key |-> key, value |-> v])

\* The lru_cache after the call: a hit becomes the most recent entry, a
\* miss that returns is inserted, a miss that raises leaves it as it was.
CacheAfter(w, key) ==
    LET i == CacheIndex(cache, w, key)
        v == Scan(_backends[w], key)
    IN IF i # 0 THEN Append(Without(cache, i), cache[i])
       ELSE IF v = NotConfiguredError THEN cache
       ELSE CacheInsert(cache, [w |-> w, key |-> key, value |-> v])

\* The cache c without its entry for (w, key), if it has one.
Forget(c, w, key) ==
    IF CacheIndex(c, w, key) = 0 THEN c ELSE Without(c, CacheIndex(c, w, key))

\* A cache of MaxSize entries that wrapper w shares with no other, after a
\* call for key: what lru_cache does on a hit, a miss and an exception.
OwnAfter(c, w, key) ==
    LET i == CacheIndex(c, w, key)
        v == Scan(_backends[w], key)
    IN IF i # 0 THEN Append(Without(c, i), c[i])
       ELSE IF v = NotConfiguredError THEN c
       ELSE Append(IF Len(c) >= MaxSize THEN Tail(c) ELSE c,
                   [w |-> w, key |-> key, value |-> v])

\* What the call for key returns with the cache c of OwnAfter.
OwnLookup(c, w, key) ==
    IF CacheIndex(c, w, key) # 0 THEN c[CacheIndex(c, w, key)].value
    ELSE Scan(_backends[w], key)

\* The history of the resolver's calls after one more call of
\* _get_backend_and_config(w, key) that returned or raised value.
Remember(w, key, value) ==
    /\ recent' = IF value = NotConfiguredError THEN recent
                 ELSE Append(Forget(recent, w, key), [w |-> w, key |-> key])
    /\ raised' = [raised EXCEPT ![w] = IF value = NotConfiguredError
                                       THEN @ \cup {key} ELSE @ \ {key}]
    /\ own' = [own EXCEPT ![w] = OwnAfter(@, w, key)]

\* The effects of one call of the memoised _get_backend_and_config(w, key).
ResolveEffects(w, key) ==
    /\ cache' = CacheAfter(w, key)
    /\ resolved' = IF Lookup(w, key) = NotConfiguredError THEN resolved
                   ELSE [resolved EXCEPT ![w][key] = Lookup(w, key)]
    /\ UNCHANGED <<_backends, stale>>

\* self._get_backend_and_config(key)
Resolve(w, key) ==
    /\ ResolveEffects(w, key)
    /\ result' = [kind |-> "resolve", w |-> w, key |-> key,
                  value |-> Lookup(w, key),
                  hit |-> CacheIndex(cache, w, key) # 0,
                  before |-> resolved[w][key],
                  failed |-> key \in raised[w]]
    /\ UNCHANGED <<constructed, disabled, is_init, given, log, task, order,
                   threads>>

(***************************************************************************)
(* Wrapper.setup and Wrapper._add_backend                                  *)
(***************************************************************************)

\* _add_backend that puts the extras before the defaults.
AddBackendExtrasFirst(d, backend, middlewares, prefix) ==
    DictSet(d, prefix, [backend |-> backend,
                        middlewares |-> middlewares \o _default_middlewares])

\* self._backends after _add_backend(backend, middlewares, prefix)
_add_backend(d, backend, middlewares, prefix) ==
    DictSet(d, prefix, [backend |-> backend,
                        middlewares |-> _default_middlewares \o middlewares])

\* The keyword arguments of setup that it reads itself: each is "absent",
\* "True" or "False".
NoFlags == [disable |-> "absent", enable |-> "absent"]

\* Keyword arguments passed to setup in the pipeline runs.
SetupFlags == {NoFlags, [NoFlags EXCEPT !.disable = "True"],
               [NoFlags EXCEPT !.enable = "False"]}

\* setup that forgets to disable the backend.
DisableAtSetupNever(params) == FALSE

\* Whether setup calls backend.disable() on the backend it constructed:
\* params["disable"] when given, else not params.pop("enable", True).
DisableAtSetup(params) ==
    IF params.disable # "absent" THEN params.disable = "True"
    ELSE ~(IF params.enable # "absent" THEN params.enable = "True" ELSE TRUE)

\* The effects of setup(settings_url, middlewares, prefix, **params) on the
\* table and on the new backend.
SetupEffects(w, middlewares, prefix, params) ==
    LET backend == constructed + 1
    IN /\ constructed < MaxBackends
       /\ constructed' = backend
       /\ disabled' = [disabled EXCEPT ![backend] = DisableAtSetup(params)]
       /\ _backends' = [_backends EXCEPT
                          ![w] = _add_backend(@, backend, middlewares, prefix)]
       /\ resolved' = [resolved EXCEPT ![w] = [k \in Keys |-> None]]
       /\ stale' = [stale EXCEPT
                      ![w] = @ \/ \E k \in Keys : resolved[w][k] # None]
       /\ given' = [given EXCEPT ![backend] = [middlewares |-> middlewares,
                                               params |-> params,
                                               enabled |-> FALSE]]
       /\ UNCHANGED <<recent, raised, own, threads>>

\* A setup that clears the lru_cache (cache_clear()).
CacheClearedAtSetup(c) == <<>>

\* The lru_cache after setup: neither setup nor _add_backend touches it.
CacheAfterSetup(c) == c

\* setup(settings_url, middlewares, prefix, **params); it is called while no
\* init() or close() is suspended in its loop.
Setup(w, middlewares, prefix, params) ==
    /\ SetupEffects(w, middlewares, prefix, params)
    /\ task = Idle
    /\ cache' = CacheAfterSetup(cache)
    /\ result' = [kind |-> "setup", w |-> w, prefix |-> prefix,
                  value |-> constructed + 1]
    /\ UNCHANGED <<is_init, log, task, order>>

(***************************************************************************)
(* The resolver: setup and resolution on one wrapper                       *)
(***************************************************************************)

SetupStep == \E w \in MainWrapper, p \in Prefixes : Setup(w, <<>>, p, NoFlags)

\* The history variables are written in the specifications whose
\* properties read them, and stay as they are in the others.
ResolveStep ==
    \E w \in MainWrapper, k \in Keys :
        Resolve(w, k) /\ UNCHANGED <<recent, raised, own>>

Next == SetupStep \/ ResolveStep

Spec == Init /\ [][Next]_vars

(***************************************************************************)
(* Properties of the resolver                                              *)
(***************************************************************************)

\* The registered prefixes that key starts with.
Matching(d, key) == {p \in {d[i].prefix : i \in 1..Len(d)} : startswith(key, p)}

\* The longest registered prefix that key starts with.
LongestMatch(d, key) ==
    CHOOSE p \in Matching(d, key) : \A q \in Matching(d, key) : Len(q) <= Len(p)

\* The prefix under which the registration value is held in table d.
RegisteredPrefix(d, value) ==
    CHOOSE p \in {d[i].prefix : i \in 1..Len(d)} : DictGet(d, p) = value

\* The tables that hold the registrations of d in another insertion order.
Reorderings(d) ==
    {[i \in 1..Len(d) |-> d[f[i]]] : f \in Permutations(1..Len(d))}

\* The last call was a resolution on wrapper w.
ResolvedOn(w) == result.kind = "resolve" /\ result.w = w

\* C1: when "" is registered and every setup call came before the first
\* resolution, a resolution returns the registration of the longest
\* registered prefix the key starts with.
C1_LongestPrefix ==
    \A w \in Wrappers :
        (ResolvedOn(w) /\ ~stale[w] /\ DictHas(_backends[w], default_prefix))
            => result.value
                 = DictGet(_backends[w], LongestMatch(_backends[w], result.key))

\* C1 witness: with {"", "a", "ab"} registered, "abc" has resolved to the
\* registration of "ab", which is neither the first nor the last one set up.
C1_Witness ==
    /\ ResolvedOn(1) /\ ~stale[1]
    /\ {_backends[1][i].prefix : i \in 1..Len(_backends[1])} = {<<>>, <<1>>, <<1, 2>>}
    /\ result.key = <<1, 2, 3>>
    /\ result.value = DictGet(_backends[1], <<1, 2>>)
    /\ _backends[1][2].prefix = <<1, 2>>

\* C2 (as claimed): without a registration for "", every resolution fails
\* with NotConfiguredError, whatever other prefixes are registered.
C2_FailsWithoutDefault ==
    \A w \in Wrappers :
        (ResolvedOn(w) /\ ~DictHas(_backends[w], default_prefix))
            => result.value = NotConfiguredError

\* C3 (as claimed): a resolution returns what a fresh scan of the current
\* table returns, also when setup was called after keys were resolved.
C3_NeverStale ==
    \A w \in Wrappers :
        ResolvedOn(w) => result.value = Scan(_backends[w], result.key)

\* C7 (as claimed): two resolutions of one key with no setup call between
\* them return the identical registration.
C7_Idempotent ==
    (result.kind = "resolve" /\ result.before # None
       /\ result.value # NotConfiguredError)
        => result.value = result.before

\* C8: when every setup call came before the first resolution, a
\* resolution selects the prefix that it selects in every run that
\* registered the same prefixes in another order.
C8_OrderIndependent ==
    \A w \in Wrappers :
        (ResolvedOn(w) /\ ~stale[w])
            => \A d2 \in Reorderings(_backends[w]) :
                 ScanPrefix(d2, result.key)
                   = IF result.value = NotConfiguredError
                     THEN NotConfiguredError
                     ELSE [prefix |-> RegisteredPrefix(_backends[w], result.value)]

\* C8 witness: three prefixes were registered in an order that is not the
\* order of the scan, and a key resolved to a prefix other than "".
C8_Witness ==
    /\ ResolvedOn(1) /\ ~stale[1]
    /\ Len(_backends[1]) = 3
    /\ DictKeys(_backends[1]) # SortedReverse(DictKeys(_backends[1]))
    /\ result.value # NotConfiguredError
    /\ RegisteredPrefix(_backends[1], result.value) # default_prefix

\* C9: the lru_cache never holds more than maxsize entries.
C9_CacheBound == Len(cache) <= MaxSize

\* C9 witness: the cache is full after a miss, and a key resolved since the
\* last setup is no longer in it (it was evicted).
C9_Witness ==
    /\ ResolvedOn(1) /\ ~result.hit
    /\ Len(cache) = MaxSize
    /\ \E k \in Keys : resolved[1][k] # None /\ CacheIndex(cache, 1, k) = 0

(***************************************************************************)
(* Wrapper._with_middlewares_for_backend and the invocation of its result  *)
(***************************************************************************)

\* Command identifiers (cashews.commands.Command).
Commands == {"get", "set"}

\* Keys dispatched in the pipeline runs: "abc".
PipelineKeys == {<<1, 2, 3>>}

\* Prefixes set up in the pipeline runs: "", "a".
PipelinePrefixes == {<<>>, <<1>>}

\* getattr(backend, cmd.value)
getattr(backend, cmd) == [kind |-> "raw", backend |-> backend, cmd |-> cmd]

\* functools.partial(middleware, call, cmd, backend)
partial(middleware, call, cmd, backend) ==
    [kind |-> "partial", func |-> middleware, call |-> call, cmd |-> cmd,
     backend |-> backend]

\* A fold that wraps the listed middlewares from the last to the first.
RECURSIVE FoldLastInnermost(_, _, _, _)
FoldLastInnermost(call, cmd, backend, middlewares) ==
    IF middlewares = <<>> THEN call
    ELSE partial(Head(middlewares),
                 FoldLastInnermost(call, cmd, backend, Tail(middlewares)),
                 cmd, backend)

\* for middleware in middlewares: call = partial(middleware, call, cmd, backend)
RECURSIVE Fold(_, _, _, _)
Fold(call, cmd, backend, middlewares) ==
    IF middlewares = <<>> THEN call
    ELSE Fold(partial(Head(middlewares), call, cmd, backend), cmd, backend,
              Tail(middlewares))

_with_middlewares_for_backend(cmd, backend, middlewares) ==
    Fold(getattr(backend, cmd), cmd, backend, middlewares)

\* What an invocation has done so far: the events and the backends' is_init.
Started == [log |-> <<>>, is_init |-> is_init]

\* A middleware starts / returns: it records what it was called with.
Enter(st, middleware, cmd, backend) ==
    [st EXCEPT !.log = Append(@, [event |-> "enter", by |-> middleware,
                                  cmd |-> cmd, backend |-> backend])]

Exit(st, middleware, cmd, backend) ==
    [st EXCEPT !.log = Append(@, [event |-> "exit", by |-> middleware,
                                  cmd |-> cmd, backend |-> backend])]

RECURSIVE Invoke(_, _)

\* _is_disable_middleware(call, cmd, backend): returns without calling
\* `call` when the backend is disabled.
_is_disable_middleware(call, cmd, backend, st) ==
    LET entered == Enter(st, "_is_disable_middleware", cmd, backend)
    IN Exit(IF disabled[backend] THEN entered ELSE Invoke(call, entered),
            "_is_disable_middleware", cmd, backend)

\* The middleware made by create_auto_init(): initialises the backend when
\* it is not, then calls `call`.
auto_init(call, cmd, backend, st) ==
    LET entered == Enter(st, "auto_init", cmd, backend)
        ready == [entered EXCEPT !.is_init[backend] = TRUE]
    IN Exit(Invoke(call, ready), "auto_init", cmd, backend)

\* validation._invalidate_middleware(call, cmd, backend): calls `call`.
_invalidate_middleware(call, cmd, backend, st) ==
    LET entered == Enter(st, "_invalidate_middleware", cmd, backend)
    IN Exit(Invoke(call, entered), "_invalidate_middleware", cmd, backend)

\* A caller's middleware: records its name, delegates once, records again.
Recording(name, call, cmd, backend, st) ==
    Exit(Invoke(call, Enter(st, name, cmd, backend)), name, cmd, backend)

\* Calling a callable: the raw backend operation, or the partial's
\* middleware applied to the arguments the partial has bound.
Invoke(call, st) ==
    IF call.kind = "raw"
    THEN [st EXCEPT !.log = Append(@, [event |-> "raw", by |-> "backend",
                                       cmd |-> call.cmd,
                                       backend |-> call.backend])]
    ELSE CASE call.func = "_is_disable_middleware" ->
                _is_disable_middleware(call.call, call.cmd, call.backend, st)
           [] call.func = "auto_init" ->
                auto_init(call.call, call.cmd, call.backend, st)
           [] call.func = "_invalidate_middleware" ->
                _invalidate_middleware(call.call, call.cmd, call.backend, st)
           [] OTHER ->
                Recording(call.func, call.call, call.cmd, call.backend, st)

\* self._with_middlewares(cmd, key), and the caller calling what it returns
Dispatch(w, cmd, key) ==
    LET v == Lookup(w, key)
        call == _with_middlewares_for_backend(cmd, v.backend, v.middlewares)
        out == Invoke(call, Started)
    IN /\ ResolveEffects(w, key)
       /\ IF v = NotConfiguredError
          THEN /\ result' = [kind |-> "dispatch", w |-> w, key |-> key,
                             cmd |-> cmd, value |-> v]
               /\ UNCHANGED <<log, is_init>>
          ELSE /\ result' = [kind |-> "dispatch", w |-> w, key |-> key,
                             cmd |-> cmd, value |-> v,
                             backend |-> v.backend,
                             middlewares |-> v.middlewares]
               /\ log' = out.log
               /\ is_init' = out.is_init
       /\ UNCHANGED <<constructed, disabled, given, task, order, recent,
                      raised, own, threads>>

\* self._with_middlewares_for_backend(cmd, backend, middlewares) called with
\* a sequence of caller's middlewares, and the caller calling what it returns
Compose(cmd, backend, middlewares) ==
    LET out == Invoke(_with_middlewares_for_backend(cmd, backend, middlewares),
                      Started)
    IN /\ backend <= constructed
       /\ result' = [kind |-> "compose", cmd |-> cmd, backend |-> backend,
                     middlewares |-> middlewares]
       /\ log' = out.log
       /\ is_init' = out.is_init
       /\ UNCHANGED <<_backends, cache, constructed, disabled, resolved, stale,
                      given, task, order,
                   recent, raised, own, threads>>

\* backend.enable() on a backend that setup returned
Enable(backend) ==
    /\ backend <= constructed
    /\ disabled' = [disabled EXCEPT ![backend] = FALSE]
    /\ given' = [given EXCEPT ![backend].enabled = TRUE]
    /\ result' = [kind |-> "enable", backend |-> backend]
    /\ UNCHANGED <<_backends, cache, constructed, is_init, resolved, stale,
                   log, task, order,
                   recent, raised, own, threads>>

SetupWithStep ==
    /\ constructed < MaxPipelineBackends
    /\ \E w \in MainWrapper, p \in PipelinePrefixes, ms \in SetupExtras,
          params \in SetupFlags :
            Setup(w, ms, p, params)

DispatchStep ==
    \E w \in MainWrapper, c \in Commands, k \in PipelineKeys : Dispatch(w, c, k)

ComposeStep ==
    \E c \in Commands, b \in Backends, ms \in Extras : Compose(c, b, ms)

EnableStep == \E b \in Backends : Enable(b)

\* The registered pipelines: setup with extras, dispatch, enable.
NextPipeline == SetupWithStep \/ DispatchStep \/ EnableStep

SpecPipeline == Init /\ [][NextPipeline]_vars

SetupPlainStep ==
    /\ constructed < MaxPipelineBackends
    /\ \E w \in MainWrapper, p \in PipelinePrefixes, params \in SetupFlags :
          Setup(w, <<>>, p, params)

\* The composer called directly with a caller's middleware sequence.
NextCompose == SetupPlainStep \/ ComposeStep

SpecCompose == Init /\ [][NextCompose]_vars

(***************************************************************************)
(* Properties of the composed callable                                     *)
(***************************************************************************)

\* The events of an invocation in which each of middlewares delegates once.
Nested(middlewares, cmd, backend) ==
    LET n == Len(middlewares)
    IN [i \in 1..(2 * n + 1) |->
          IF i <= n
          THEN [event |-> "enter", by |-> middlewares[n + 1 - i],
                cmd |-> cmd, backend |-> backend]
          ELSE IF i = n + 1
          THEN [event |-> "raw", by |-> "backend", cmd |-> cmd, backend |-> backend]
          ELSE [event |-> "exit", by |-> middlewares[i - n - 1],
                cmd |-> cmd, backend |-> backend]]

\* The last call built and invoked a composed callable.
Invoked ==
    \/ result.kind = "compose"
    \/ result.kind = "dispatch" /\ result.value # NotConfiguredError

\* The names of the middlewares entered, in the order of entry.
Entered ==
    LET es == SelectSeq(log, LAMBDA e : e.event = "enter")
    IN [i \in 1..Len(es) |-> es[i].by]

\* The raw backend operation was reached.
RawReached == \E i \in 1..Len(log) : log[i].event = "raw"

\* The backend was constructed by setup(..., disable=True) and enable() was
\* not called on it since.
SetUpDisabled(b) ==
    given[b] # None /\ given[b].params.disable = "True" /\ ~given[b].enabled

\* C4: invoking the callable composed from [m0, ..., mk], every one of
\* which delegates once, enters mk, ..., m0, then runs the raw operation,
\* then leaves m0, ..., mk; every middleware gets the same command and
\* backend.
C4_Nesting ==
    (Invoked /\ ~("_is_disable_middleware" \in
                    {result.middlewares[i] : i \in 1..Len(result.middlewares)}
                  /\ disabled[result.backend]))
        => log = Nested(result.middlewares, result.cmd, result.backend)

\* C4 witness: [m1, m2, m0] was composed and invoked: m0 was entered first,
\* the raw operation ran fourth and m0 was left last.
C4_Witness ==
    /\ result.kind = "compose"
    /\ result.middlewares = <<"m1", "m2", "m0">>
    /\ Len(log) = 7
    /\ log[1].by = "m0" /\ log[3].by = "m1" /\ log[4].event = "raw"
    /\ log[7].by = "m0" /\ log[7].event = "exit"

\* C5: every registration holds (disable-gate, auto-init, invalidation)
\* followed by the extras given to setup, and a dispatch enters the extras
\* from the last to the first, then invalidation, auto-init and the
\* disable-gate, and only then may reach the raw operation.
C5_DefaultOrder ==
    /\ \A w \in Wrappers : \A i \in 1..Len(_backends[w]) :
          _backends[w][i].middlewares
            = <<"_is_disable_middleware", "auto_init", "_invalidate_middleware">>
                \o given[_backends[w][i].backend].middlewares
    /\ (result.kind = "dispatch" /\ result.value # NotConfiguredError)
          => LET x == given[result.backend].middlewares
                 n == Len(x) + 3
             IN /\ Entered = [i \in 1..Len(x) |-> x[Len(x) + 1 - i]]
                              \o <<"_invalidate_middleware", "auto_init",
                                   "_is_disable_middleware">>
                /\ \A i \in 1..n : log[i].event = "enter"
                /\ log[n + 1].event \in {"raw", "exit"}
                /\ log[n + 1].event = "exit" => log[n + 1].by = "_is_disable_middleware"

\* C5 witness: a backend set up with extras (m1, m0) served a dispatch that
\* entered m0 first and reached the raw operation sixth.
C5_Witness ==
    /\ result.kind = "dispatch" /\ result.value # NotConfiguredError
    /\ given[result.backend].middlewares = <<"m1", "m0">>
    /\ log[1].by = "m0" /\ log[2].by = "m1"
    /\ log[6].event = "raw"

\* C6: a backend set up with disable=True is disabled while registered and
\* not re-enabled, and a dispatch resolving to it stops at the disable-gate
\* and does not reach the raw operation.
C6_DisableGate ==
    /\ \A w \in Wrappers : \A i \in 1..Len(_backends[w]) :
          SetUpDisabled(_backends[w][i].backend)
            => disabled[_backends[w][i].backend]
    /\ (result.kind = "dispatch" /\ result.value # NotConfiguredError
          /\ SetUpDisabled(result.backend))
          => /\ ~RawReached
             /\ \E i \in 1..(Len(log) - 1) :
                   /\ log[i].event = "enter" /\ log[i].by = "_is_disable_middleware"
                   /\ log[i + 1].event = "exit"
                   /\ log[i + 1].by = "_is_disable_middleware"

\* C6 witness: a dispatch resolved to a backend set up with disable=True and
\* extras, ran the extras and stopped at the gate; another registered
\* backend is enabled.
C6_Witness ==
    /\ result.kind = "dispatch" /\ result.value # NotConfiguredError
    /\ SetUpDisabled(result.backend)
    /\ Len(given[result.backend].middlewares) = 2
    /\ Len(log) = 10 /\ ~RawReached
    /\ \E i \in 1..Len(_backends[1]) : ~disabled[_backends[1][i].backend]

(***************************************************************************)
(* Wrapper.init, Wrapper.is_init and Wrapper.close                         *)
(***************************************************************************)

\* Prefixes set up in the lifecycle runs: "", "a".
LifecyclePrefixes == {<<>>, <<1>>}

\* What init() is called with: nothing, or the arguments of a setup call.
InitArgs == {None} \cup {[prefix |-> p] : p \in LifecyclePrefixes}

\* A loop over d.values() that stops one item early.
ExhaustedEarly(d, i) == i >= Len(d)

\* `for backend, _ in self._backends.values()` has no item left at position i.
Exhausted(d, i) == i > Len(d)

\* An is_init that looks at the first backend only.
AllInitFirstOnly(values) ==
    IF values = <<>> THEN TRUE ELSE is_init[Head(values).backend]

\* The property is_init: False at the first backend that is not initialised.
RECURSIVE AllInit(_)
AllInit(values) ==
    IF values = <<>> THEN TRUE
    ELSE IF ~is_init[Head(values).backend] THEN FALSE
    ELSE AllInit(Tail(values))

WrapperIsInit(w) == AllInit(DictValues(_backends[w]))

\* init(*args, **kwargs) up to its loop: setup when arguments were passed.
\* The caller awaits init() and close(), so one of them runs at a time and
\* no setup call runs in between.
InitCall(w, args) ==
    /\ task = Idle
    /\ IF args = None
       THEN UNCHANGED <<_backends, cache, constructed, disabled, resolved,
                        stale, given,
                   recent, raised, own, threads>>
       ELSE /\ SetupEffects(w, <<>>, args.prefix, NoFlags)
            /\ cache' = CacheAfterSetup(cache)
    /\ task' = [kind |-> "init", w |-> w, i |-> 1, args |-> args,
                before |-> constructed]
    /\ order' = <<>>
    /\ result' = [kind |-> "init", w |-> w, value |-> "pending"]
    /\ UNCHANGED <<is_init, log>>

\* close() up to its loop
CloseCall(w) ==
    /\ task = Idle
    /\ task' = [kind |-> "close", w |-> w, i |-> 1, args |-> None,
                before |-> constructed]
    /\ order' = <<>>
    /\ result' = [kind |-> "close", w |-> w, value |-> "pending"]
    /\ UNCHANGED <<_backends, cache, constructed, disabled, is_init, resolved,
                   stale, given, log,
                   recent, raised, own, threads>>

\* Backend.init(): the backend is initialised afterwards.
BackendInit(backend) == [is_init EXCEPT ![backend] = TRUE]

\* Backend.close(): the backend is not initialised afterwards.
BackendClose(backend) == [is_init EXCEPT ![backend] = FALSE]

\* A loop that records the exception of a backend and goes on to the next.
AwaitKeepsGoing(kind, completes) ==
    /\ task # Idle /\ task.kind = kind
    /\ ~Exhausted(_backends[task.w], task.i)
    /\ LET backend == DictValues(_backends[task.w])[task.i].backend
       IN /\ order' = Append(order, backend)
          /\ task' = [task EXCEPT !.i = @ + 1]
          /\ IF completes
             THEN /\ is_init' = [is_init EXCEPT ![backend] = (kind = "init")]
                  /\ UNCHANGED result
             ELSE /\ result' = [kind |-> kind, w |-> task.w, value |-> "raised",
                                backend |-> backend]
                  /\ UNCHANGED is_init
    /\ UNCHANGED <<_backends, cache, constructed, disabled, resolved, stale,
                   given, log,
                   recent, raised, own, threads>>

\* One `await backend.init()` / `await backend.close()` of the loop: it
\* completes (init leaves the backend initialised, close leaves it not
\* initialised) or it raises, and the exception ends the coroutine.
Await(kind, completes) ==
    /\ task # Idle /\ task.kind = kind
    /\ ~Exhausted(_backends[task.w], task.i)
    /\ LET backend == DictValues(_backends[task.w])[task.i].backend
       IN /\ order' = Append(order, backend)
          /\ IF completes
             THEN /\ is_init' = IF kind = "init" THEN BackendInit(backend)
                                 ELSE BackendClose(backend)
                  /\ task' = [task EXCEPT !.i = @ + 1]
                  /\ UNCHANGED result
             ELSE /\ task' = Idle
                  /\ result' = [kind |-> kind, w |-> task.w, value |-> "raised",
                                backend |-> backend]
                  /\ UNCHANGED is_init
    /\ UNCHANGED <<_backends, cache, constructed, disabled, resolved, stale,
                   given, log,
                   recent, raised, own, threads>>

\* The loop of init() / close() is over: the coroutine returns.
Return(kind) ==
    /\ task # Idle /\ task.kind = kind
    /\ Exhausted(_backends[task.w], task.i)
    /\ task' = Idle
    /\ result' = [kind |-> kind, w |-> task.w, value |-> "returned",
                  args |-> task.args, before |-> task.before]
    /\ UNCHANGED <<_backends, cache, constructed, disabled, is_init, resolved,
                   stale, given, log, order,
                   recent, raised, own, threads>>

SetupOnlyStep ==
    \E w \in MainWrapper, p \in LifecyclePrefixes : Setup(w, <<>>, p, NoFlags)

InitCallStep == \E w \in MainWrapper, args \in InitArgs : InitCall(w, args)

InitAwaitStep == \E completes \in BOOLEAN : Await("init", completes)

InitReturnStep == Return("init")

CloseCallStep == \E w \in MainWrapper : CloseCall(w)

CloseAwaitStep == \E completes \in BOOLEAN : Await("close", completes)

CloseReturnStep == Return("close")

NextLifecycle ==
    \/ SetupOnlyStep
    \/ InitCallStep \/ InitAwaitStep \/ InitReturnStep
    \/ CloseCallStep \/ CloseAwaitStep \/ CloseReturnStep

SpecLifecycle == Init /\ [][NextLifecycle]_vars

(***************************************************************************)
(* Properties of the lifecycle fan-out                                     *)
(***************************************************************************)

\* The backends of table d, in the order of the table.
TableBackends(d) == [i \in 1..Len(d) |-> d[i].backend]

\* The last call was an init() that returned.
InitReturned == result.kind = "init" /\ result.value = "returned"

\* Every registered backend was initialised by the init() that returned,
\* init(args) has registered a new backend first, and is_init is true.
InitReachedAll ==
    LET d == _backends[result.w]
    IN /\ {order[i] : i \in 1..Len(order)} = {d[i].backend : i \in 1..Len(d)}
       /\ Len(order) = Len(d)
       /\ \A i \in 1..Len(d) : is_init[d[i].backend]
       /\ WrapperIsInit(result.w)
       /\ result.args # None
            => /\ DictHas(d, result.args.prefix)
               /\ DictGet(d, result.args.prefix).backend = result.before + 1

\* C10 (as claimed): an init() that returns has called init() on every
\* registered backend in the order in which the backends were registered
\* (a backend is registered when it is constructed, so in ascending order
\* of construction), the backend of init(args) included, and leaves every
\* backend and the aggregate is_init true.
C10_RegistrationOrder ==
    InitReturned
        => /\ InitReachedAll
           /\ \A i, j \in 1..Len(order) : i < j => order[i] < order[j]

\* C10 (amended): an init() that returns has called init() on every
\* registered backend in the order of the table, in which a prefix that is
\* set up again keeps the place of its first registration; the backend of
\* init(args) is included, and every backend and the aggregate is_init are
\* true.
C10_TableOrder ==
    InitReturned
        => /\ InitReachedAll
           /\ order = TableBackends(_backends[result.w])

\* C10 witness: init(args) returned after registering a third backend under
\* a prefix that was first registered before another one, and initialised
\* the new backend before the older one.
C10_Witness ==
    /\ InitReturned
    /\ result.args # None
    /\ Len(order) = 2
    /\ order[1] = 3 /\ order[1] > order[2]
    /\ WrapperIsInit(result.w)

\* C11: Wrapper.is_init is true exactly when every registered backend is
\* initialised: false as soon as one is not, true for an empty table.
C11_AggregateIsInit ==
    \A w \in Wrappers :
        /\ WrapperIsInit(w)
             <=> \A i \in 1..Len(_backends[w]) : is_init[_backends[w][i].backend]
        /\ _backends[w] = <<>> => WrapperIsInit(w)

\* C11 witness: the first registered backend is initialised, the second is
\* not, and is_init is false.
C11_Witness ==
    /\ Len(_backends[1]) = 2
    /\ is_init[_backends[1][1].backend]
    /\ ~is_init[_backends[1][2].backend]
    /\ ~WrapperIsInit(1)

\* The last call was an init() or close() that a backend's exception ended.
Raised == result.kind \in {"init", "close"} /\ result.value = "raised"

\* The call stopped at the backend that raised: the backends before it in
\* the table were called and are initialised (after close(): closed), the
\* backends after it were not called, and the coroutine is over.
StoppedAtFailure ==
    LET d == _backends[result.w]
        n == Len(order)
    IN /\ task = Idle
       /\ n >= 1 /\ n <= Len(d)
       /\ order = SubSeq(TableBackends(d), 1, n)
       /\ order[n] = result.backend
       /\ \A i \in 1..(n - 1) : is_init[order[i]] <=> (result.kind = "init")

\* C16 (as claimed): when the call on one backend fails, init() / close()
\* ends with that error, the backends registered before the failing one
\* (constructed before it) have been initialised / closed and the backends
\* registered after it (constructed after it) were not attempted.
C16_FailFastRegistrationOrder ==
    Raised
        => /\ StoppedAtFailure
           /\ \A b \in 1..constructed :
                 (\E i \in 1..Len(_backends[result.w]) :
                     _backends[result.w][i].backend = b)
                   => IF b < result.backend
                      THEN \E i \in 1..Len(order) : order[i] = b
                      ELSE b = result.backend \/ \A i \in 1..Len(order) : order[i] # b

\* C16 (amended): when the call on one backend fails, init() / close() ends
\* with that error, the backends before the failing one in the order of the
\* table (a prefix that is set up again keeps the place of its first
\* registration) have been initialised / closed, and the backends after it
\* in that order were not attempted.
C16_FailFast == Raised => StoppedAtFailure

\* C16 witness: close() on a table of two initialised backends closed the
\* first and ended with the exception of the second, which stays initialised.
C16_Witness ==
    /\ Raised /\ result.kind = "close"
    /\ Len(_backends[result.w]) = 2 /\ Len(order) = 2
    /\ ~is_init[order[1]] /\ is_init[order[2]]

(***************************************************************************)
(* Properties of setup and of the resolver's cache                         *)
(***************************************************************************)

\* The prefixes registered in table d.
RegisteredPrefixes(d) == {d[i].prefix : i \in 1..Len(d)}

\* C12: the table holds at most one registration per prefix, and a setup
\* call for prefix p leaves under p the backend it has just constructed with
\* the default middlewares followed by the given ones, returns that
\* backend, keeps every other prefix with its registration, and changes no
\* other wrapper's table.
C12_SetupOverwrite ==
    /\ [](\A w \in Wrappers :
            Cardinality(RegisteredPrefixes(_backends[w])) = Len(_backends[w]))
    /\ [][(result'.kind = "setup" /\ constructed' = constructed + 1)
            => LET w == result'.w
                   p == result'.prefix
                   old == _backends[w]
                   new == _backends'[w]
               IN /\ result'.value = constructed'
                  /\ DictHas(new, p)
                  /\ DictGet(new, p)
                       = [backend |-> result'.value,
                          middlewares |->
                            <<"_is_disable_middleware", "auto_init",
                              "_invalidate_middleware">>
                              \o given'[result'.value].middlewares]
                  /\ RegisteredPrefixes(new) = RegisteredPrefixes(old) \cup {p}
                  /\ \A q \in RegisteredPrefixes(old) \ {p} :
                        DictGet(new, q) = DictGet(old, q)
                  /\ \A v \in Wrappers \ {w} : _backends'[v] = _backends[v]]_vars

\* C12 witness: the third setup call replaced the registration of the prefix
\* registered first, next to another prefix that kept its backend.
C12_Witness ==
    /\ result.kind = "setup" /\ result.value = 3
    /\ Len(_backends[1]) = 2
    /\ _backends[1][1].prefix = result.prefix
    /\ _backends[1][1].backend = 3
    /\ _backends[1][2].backend = 2

\* C20 (as claimed): the backend a resolution returns is the backend of an
\* entry that is in the table at that time.
C20_ResolvedIsRegistered ==
    \A w \in Wrappers :
        (ResolvedOn(w) /\ result.value # NotConfiguredError)
            => \E i \in 1..Len(_backends[w]) :
                  _backends[w][i].backend = result.value.backend

\* C13: with no registration at all, every resolution and every dispatch
\* raises NotConfiguredError; a dispatch builds and invokes no callable.
C13_MissingDefault ==
    \A w \in Wrappers :
        _backends[w] = <<>>
            => /\ \A k \in Keys : Lookup(w, k) = NotConfiguredError
               /\ (result.kind \in {"resolve", "dispatch"} /\ result.w = w)
                     => /\ result.value = NotConfiguredError
                        /\ log = <<>>

\* C13 witness: a command was dispatched on a wrapper without registrations
\* and raised.
C13_Witness ==
    /\ result.kind = "dispatch" /\ result.w = 1
    /\ _backends[1] = <<>>
    /\ result.value = NotConfiguredError
    /\ cache = <<>>

\* The (wrapper, key) pairs that have an entry in cache c.
Cached(c) == {<<c[i].w, c[i].key>> : i \in 1..Len(c)}

\* The value cached in c for the pair e.
CachedValue(c, e) == c[CacheIndex(c, e[1], e[2])].value

\* C14: a setup call leaves the lru_cache as it is; an entry appears only
\* with the registration its resolution returned, keeps that value, and
\* leaves only as the least recently used entry of a full cache on a miss;
\* a resolution of a cached key returns the cached registration, whatever
\* setup calls were made since.
C14_SetupKeepsCache ==
    [][/\ result'.kind = "setup" => cache' = cache
       /\ \A e \in Cached(cache) \cap Cached(cache') :
             CachedValue(cache', e) = CachedValue(cache, e)
       /\ \A e \in Cached(cache') \ Cached(cache) :
             /\ result'.kind = "resolve" /\ ~result'.hit
             /\ e = <<result'.w, result'.key>>
             /\ CachedValue(cache', e) = result'.value
       /\ \A e \in Cached(cache) \ Cached(cache') :
             /\ result'.kind = "resolve" /\ ~result'.hit
             /\ Len(cache) = MaxSize
             /\ e = <<cache[1].w, cache[1].key>>
       /\ (result'.kind = "resolve"
             /\ <<result'.w, result'.key>> \in Cached(cache))
            => /\ result'.hit
               /\ result'.value = CachedValue(cache, <<result'.w, result'.key>>)
      ]_vars

\* C14 witness: after a later setup call changed what a scan returns for
\* the key, a resolution still returned the registration cached before.
C14_Witness ==
    /\ ResolvedOn(1) /\ result.hit /\ stale[1]
    /\ result.value # Scan(_backends[1], result.key)
    /\ result.value = result.before

(***************************************************************************)
(* The resolver with the history of its calls                              *)
(***************************************************************************)

\* Prefixes registered in the runs that record the history.
HistoryPrefixes == {<<>>, <<1>>}

HistorySetupStep ==
    \E w \in MainWrapper, p \in HistoryPrefixes : Setup(w, <<>>, p, NoFlags)

HistoryResolveStep ==
    \E w \in MainWrapper, k \in Keys :
        Resolve(w, k) /\ Remember(w, k, Lookup(w, k))

NextHistory == HistorySetupStep \/ HistoryResolveStep

SpecHistory == Init /\ [][NextHistory]_vars

\* How recently the pair e was resolved: its position in recent, 0 if never.
Recency(e) == CacheIndex(recent, e[1], e[2])

\* The last call was a resolution that missed, returned and found the
\* cache full.
MissedOnFull ==
    /\ result'.kind = "resolve" /\ ~result'.hit
    /\ result'.value # NotConfiguredError
    /\ Len(cache) = MaxSize

\* C15: when the resolution of a key that is not cached finds the cache
\* full, the one entry that leaves is that of the pair resolved least
\* recently among the cached ones, hits counted; every other entry stays
\* and the new key is cached.
C15_EvictsLeastRecent ==
    [][MissedOnFull
         => \E e \in Cached(cache) :
               /\ \A f \in Cached(cache) : 0 < Recency(e) /\ Recency(e) <= Recency(f)
               /\ Cached(cache') = (Cached(cache) \ {e})
                                      \cup {<<result'.w, result'.key>>}
      ]_vars

\* C15 witness: after a miss on a full cache the pairs cached are the
\* MaxSize most recently resolved ones, and an older pair is gone.
C15_Witness ==
    /\ ResolvedOn(1) /\ ~result.hit
    /\ Len(cache) = MaxSize /\ Len(recent) > MaxSize
    /\ Cached(cache) =
          {<<recent[i].w, recent[i].key>> :
               i \in (Len(recent) - MaxSize + 1)..Len(recent)}
    /\ <<recent[1].w, recent[1].key>> \notin Cached(cache)

\* C18: a resolution that raises NotConfiguredError leaves the cache and
\* the table as they were; once the default prefix is registered, the next
\* resolution of a key whose last resolution raised does not raise: it
\* misses the cache and returns what the scan of the table returns, the
\* default registration when no other registered prefix matches the key.
C18_FailureNotMemoized ==
    [][result'.kind = "resolve"
         => LET w == result'.w
                key == result'.key
            IN /\ result'.value = NotConfiguredError
                    => cache' = cache /\ _backends' = _backends
               /\ (key \in raised[w] /\ DictHas(_backends[w], default_prefix))
                    => /\ result'.value # NotConfiguredError
                       /\ ~result'.hit /\ result'.failed
                       /\ result'.value = Scan(_backends[w], key)
                       /\ Matching(_backends[w], key) = {default_prefix}
                            => result'.value = DictGet(_backends[w], default_prefix)
      ]_vars

\* C18 witness: a key whose resolution had raised, while another key was
\* cached, is resolved to the default registration after a later setup.
C18_Witness ==
    /\ ResolvedOn(1) /\ result.failed
    /\ ~result.hit
    /\ DictHas(_backends[1], default_prefix)
    /\ result.value = DictGet(_backends[1], default_prefix)
    /\ Len(cache) = MaxSize

(***************************************************************************)
(* Threads calling the resolver                                            *)
(***************************************************************************)

\* Prefixes registered in the runs with threads.
ConcurrentPrefixes == {<<>>, <<1>>, <<1, 2>>}

\* Keys resolved in the runs with threads.
ConcurrentKeys == {<<1, 2, 3>>, <<1, 24, 24>>, <<26, 26, 26>>}

\* An lru_cache that stores what the function returned without looking
\* whether another thread has stored the key meanwhile.
CacheInsertRacing(c, entry) == CacheInsert(c, entry)

\* lru_cache after the function returned: when the key was stored during
\* the call the cache is left as it is, else the result is inserted.
CacheInsertIfAbsent(c, entry) ==
    IF CacheIndex(c, entry.w, entry.key) # 0 THEN c ELSE CacheInsert(c, entry)

\* What the caller of _get_backend_and_config(w, key) gets.
Returned(w, key, value, hit) ==
    result' = [kind |-> "resolve", w |-> w, key |-> key, value |-> value,
               hit |-> hit, before |-> resolved[w][key],
               failed |-> key \in raised[w]]

\* Thread t calls _get_backend_and_config(w, key): lru_cache looks the key
\* up; a hit becomes the most recent entry and is returned, a miss goes on
\* to call the function.
Call(t, w, key) ==
    LET i == CacheIndex(cache, w, key)
    IN /\ threads[t] = Idle
       /\ IF i # 0
          THEN /\ cache' = Append(Without(cache, i), cache[i])
               /\ Returned(w, key, cache[i].value, TRUE)
               /\ UNCHANGED threads
          ELSE /\ threads' = [threads EXCEPT
                                ![t] = [kind |-> "missed", w |-> w, key |-> key]]
               /\ UNCHANGED <<cache, result>>
       /\ UNCHANGED <<_backends, constructed, disabled, is_init, resolved,
                      stale, given, log, task, order, recent, raised, own>>

\* Thread t runs the body of _get_backend_and_config: it returns a
\* registration to lru_cache, or raises, which ends the call.
Body(t) ==
    /\ threads[t] # Idle /\ threads[t].kind = "missed"
    /\ LET w == threads[t].w
           key == threads[t].key
           v == Scan(_backends[w], key)
       IN IF v = NotConfiguredError
          THEN /\ threads' = [threads EXCEPT ![t] = Idle]
               /\ Returned(w, key, v, FALSE)
          ELSE /\ threads' = [threads EXCEPT
                                ![t] = [kind |-> "computed", w |-> w,
                                        key |-> key, value |-> v]]
               /\ UNCHANGED result
    /\ UNCHANGED <<_backends, cache, constructed, disabled, is_init, resolved,
                   stale, given, log, task, order, recent, raised, own>>

\* lru_cache stores what the body returned to thread t and returns it.
Store(t) ==
    /\ threads[t] # Idle /\ threads[t].kind = "computed"
    /\ LET w == threads[t].w
           key == threads[t].key
           v == threads[t].value
       IN /\ cache' = CacheInsertIfAbsent(cache, [w |-> w, key |-> key, value |-> v])
          /\ Returned(w, key, v, FALSE)
    /\ threads' = [threads EXCEPT ![t] = Idle]
    /\ UNCHANGED <<_backends, constructed, disabled, is_init, resolved, stale,
                   given, log, task, order, recent, raised, own>>

\* The table is set up before the threads resolve: setup is called while
\* no thread is inside the resolver and nothing is cached.
QuietSetupStep ==
    /\ \A t \in Threads : threads[t] = Idle
    /\ cache = <<>>
    /\ constructed < MaxPipelineBackends
    /\ \E w \in MainWrapper, p \in ConcurrentPrefixes : Setup(w, <<>>, p, NoFlags)

CallStep ==
    \E t \in Threads, w \in MainWrapper, k \in ConcurrentKeys : Call(t, w, k)

BodyStep == \E t \in Threads : Body(t)

StoreStep == \E t \in Threads : Store(t)

NextConcurrent == QuietSetupStep \/ CallStep \/ BodyStep \/ StoreStep

SpecConcurrent == Init /\ [][NextConcurrent]_vars

\* What a scan of table d gives for key: the registration of the longest
\* registered prefix that key starts with, the exception when there is none.
Expected(d, key) ==
    IF Matching(d, key) = {} THEN NotConfiguredError
    ELSE DictGet(d, LongestMatch(d, key))

\* C17: with the table set up before the threads resolve, however the
\* lookups, scans and inserts of their calls interleave, the cache holds at
\* most MaxSize entries and at most one entry for a key, and every call for
\* a key returns the same: the registration of the longest registered
\* prefix the key starts with; so is every entry of the cache and every
\* result about to be stored.
C17_ConcurrentResolution ==
    /\ Len(cache) <= MaxSize
    /\ \A i, j \in 1..Len(cache) :
          (cache[i].w = cache[j].w /\ cache[i].key = cache[j].key) => i = j
    /\ \A w \in Wrappers :
          /\ ResolvedOn(w) => result.value = Expected(_backends[w], result.key)
          /\ \A t \in Threads :
                (threads[t] # Idle /\ threads[t].kind = "computed"
                   /\ threads[t].w = w)
                  => threads[t].value = Expected(_backends[w], threads[t].key)
          /\ \A i \in 1..Len(cache) :
                cache[i].w = w
                  => cache[i].value = Expected(_backends[w], cache[i].key)

\* C17 witness: a call that missed returns after another thread has stored
\* the same key, in a full cache whose most recent entry is another key.
C17_Witness ==
    /\ ResolvedOn(1) /\ ~result.hit
    /\ result.value # NotConfiguredError
    /\ CacheIndex(cache, 1, result.key) # 0
    /\ Len(cache) = MaxSize
    /\ cache[MaxSize].key # result.key

(***************************************************************************)
(* Two wrappers behind the one lru_cache of the class                      *)
(***************************************************************************)

\* Keys resolved in the runs with two wrappers.
InstanceKeys == {<<1, 2, 3>>, <<26, 26, 26>>}

InstanceSetupStep ==
    \E w \in Wrappers, p \in HistoryPrefixes : Setup(w, <<>>, p, NoFlags)

InstanceResolveStep ==
    \E w \in Wrappers, k \in InstanceKeys :
        /\ Resolve(w, k)
        /\ own' = [own EXCEPT ![w] = OwnAfter(@, w, k)]
        /\ UNCHANGED <<recent, raised>>

NextInstances == InstanceSetupStep \/ InstanceResolveStep

SpecInstances == Init /\ [][NextInstances]_vars

\* C19: a resolution on a wrapper returns what it would return had no
\* other wrapper made any call, that is, what the wrapper's own setup and
\* resolve calls give behind a cache that only this wrapper uses.
C19_InstanceIndependence ==
    [][result'.kind = "resolve"
         => result'.value = OwnLookup(own[result'.w], result'.w, result'.key)
      ]_vars

====
